---- MODULE Spec2Model ----
(***************************************************************************)
(* Model of the 99Pay yield calculator (three Streamlit variants of the    *)
(* same engine: calculadora_99pay_streamlit.py, ..._v2.py, ..._cloud_v0.py) *)
(*                                                                         *)
(* The engine computes on Python floats (IEEE-754 binary64).  The model    *)
(* keeps that arithmetic: a float is a record [neg, man, exp] whose value  *)
(* is (-1)^neg * man * 2^exp, with man a 53-bit natural number held as     *)
(* little-endian limbs of LimbBits bits, and every operation rounds its    *)
(* exact result to nearest, ties to even, as the hardware does.            *)
(***************************************************************************)
EXTENDS Integers, Sequences, FiniteSets, TLC

(***************************************************************************)
(* Natural numbers of any size, as little-endian sequences of limbs        *)
(* (TLC's own integers are 32 bits wide).  <<>> is zero; no leading zero   *)
(* limb is kept.                                                           *)
(***************************************************************************)
LimbBits == 10 + 5
LimbBase == 2^LimbBits

Limb(n, i) == IF i >= 1 /\ i <= Len(n) THEN n[i] ELSE 0

LongerLen(a, b) == IF Len(a) > Len(b) THEN Len(a) ELSE Len(b)

\* The index of the top nonzero limb of n, or 0
TopLimb(n) ==
    IF \A i \in 1..Len(n) : n[i] = 0 THEN 0
    ELSE CHOOSE i \in 1..Len(n) :
             n[i] # 0 /\ \A j \in (i + 1)..Len(n) : n[j] = 0

BNTrim(n) == SubSeq(n, 1, TopLimb(n))

BNFromInt(k) ==
    BNTrim(<<k % LimbBase, (k \div LimbBase) % LimbBase,
             k \div (LimbBase * LimbBase)>>)

\* The sum of f[lo..hi] for lo <= hi, halving the range
RECURSIVE SumRange(_, _, _)
SumRange(f, lo, hi) ==
    IF lo = hi THEN f[lo]
    ELSE SumRange(f, lo, (lo + hi) \div 2)
         + SumRange(f, ((lo + hi) \div 2) + 1, hi)

\* The carry into limb i of the limb-wise sums s: some lower limb
\* overflows and every limb between is full
Carry(s, i) ==
    IF \E j \in 1..(i - 1) :
           /\ s[j] >= LimbBase
           /\ \A m \in (j + 1)..(i - 1) : s[m] = LimbBase - 1
    THEN 1 ELSE 0

BNAddLimbs(s) ==
    BNTrim([i \in 1..Len(s) |-> (s[i] + Carry(s, i)) % LimbBase])

BNAdd(a, b) ==
    IF a = <<>> THEN b
    ELSE IF b = <<>> THEN a
    ELSE BNAddLimbs([i \in 1..(LongerLen(a, b) + 1) |->
                        Limb(a, i) + Limb(b, i)])

\* The borrow out of limb i of the limb-wise differences d: some lower
\* limb falls short and every limb between is level
Borrow(d, i) ==
    IF \E j \in 1..(i - 1) :
           /\ d[j] < 0
           /\ \A m \in (j + 1)..(i - 1) : d[m] = 0
    THEN 1 ELSE 0

BNSubLimbs(d) ==
    BNTrim([i \in 1..Len(d) |-> (d[i] - Borrow(d, i) + LimbBase) % LimbBase])

\* a - b for a >= b
BNSub(a, b) ==
    IF b = <<>> THEN a
    ELSE BNSubLimbs([i \in 1..Len(a) |-> a[i] - Limb(b, i)])

BNLess(a, b) ==
    \E i \in 1..Len(b) :
        /\ Limb(a, i) < b[i]
        /\ \A j \in (i + 1)..LongerLen(a, b) : Limb(a, j) = Limb(b, j)

\* -1, 0, 1 as a < b, a = b, a > b
BNCmp(a, b) == IF a = b THEN 0 ELSE IF BNLess(a, b) THEN -1 ELSE 1

LimbProd(a, b, j, k) == IF k >= 1 /\ k <= Len(b) THEN a[j] * b[k] ELSE 0

\* Column c of a * b collects the low halves of the limb products that
\* land on it and the high halves of those that land one column below
BNMulColumn(a, b, c) ==
    SumRange([j \in 1..Len(a) |->
                 (LimbProd(a, b, j, c + 1 - j) % LimbBase)
                 + (LimbProd(a, b, j, c - j) \div LimbBase)],
             1, Len(a))

BNMulCols(col) ==
    BNAdd(BNTrim([c \in 1..Len(col) |-> col[c] % LimbBase]),
          BNTrim(<<0>> \o [c \in 1..Len(col) |-> col[c] \div LimbBase]))

BNMul(a, b) ==
    IF a = <<>> \/ b = <<>> THEN <<>>
    ELSE BNMulCols([c \in 1..(Len(a) + Len(b)) |-> BNMulColumn(a, b, c)])

\* a * k for 0 <= k < LimbBase * LimbBase
BNMulSmall(a, k) == BNMul(a, BNFromInt(k))

BNShlLimbs(a, k) == IF a = <<>> THEN <<>> ELSE [i \in 1..k |-> 0] \o a

\* a * p * LimbBase^k for p a power of 2 below LimbBase
BNShlBy(a, p, k) ==
    BNShlLimbs(BNTrim([i \in 1..(Len(a) + 1) |->
                          ((Limb(a, i) * p) % LimbBase)
                          + ((Limb(a, i - 1) * p) \div LimbBase)]),
               k)

\* a * 2^bits
BNShl(a, bits) ==
    IF a = <<>> THEN <<>>
    ELSE BNShlBy(a, 2^(bits % LimbBits), bits \div LimbBits)

\* floor(a / (2^r * LimbBase^k)) for r < LimbBits
BNShrBy(a, r, k) ==
    IF k >= Len(a) THEN <<>>
    ELSE BNTrim([i \in 1..(Len(a) - k) |->
                    (a[i + k] \div (2^r))
                    + ((Limb(a, i + k + 1) % (2^r)) * (2^(LimbBits - r)))])

\* floor(a / 2^bits)
BNShr(a, bits) == BNShrBy(a, bits % LimbBits, bits \div LimbBits)

\* the number of bits of 0 <= v < LimbBase
IntBitLen(v) ==
    CHOOSE k \in 0..LimbBits : v < 2^k /\ (k = 0 \/ v >= 2^(k - 1))

BNBitLen(a) ==
    IF a = <<>> THEN 0 ELSE LimbBits * (Len(a) - 1) + IntBitLen(a[Len(a)])

BNIsOdd(a) == a # <<>> /\ a[1] % 2 = 1

\* Division of a by a small k, 0 < k <= LimbBase, a limb at a time from
\* the top: st.r is the remainder of the limbs above st.i
RECURSIVE BNDivSmallLoop(_, _, _)
BNDivSmallLoop(st, a, k) ==
    IF st.i = 0 THEN st
    ELSE BNDivSmallLoop(
             [q |-> <<(st.r * LimbBase + a[st.i]) \div k>> \o st.q,
              r |-> (st.r * LimbBase + a[st.i]) % k,
              i |-> st.i - 1],
             a, k)

\* floor(a / k)
BNDivSmall(a, k) ==
    BNTrim(BNDivSmallLoop([q |-> <<>>, r |-> 0, i |-> Len(a)], a, k).q)

\* Long division in base LimbBase (Knuth's algorithm D) by a divisor b whose
\* top limb is at least LimbBase / 2.  One step brings down dividend limb
\* st.i into the running remainder st.r (st.r < b), estimates the quotient
\* limb from the top limbs, which is at most 2 too large, and lowers it
\* until it fits.
RECURSIVE BNDivFit(_, _, _)
BNDivFit(r, b, qhat) ==
    IF BNCmp(BNMulSmall(b, qhat), r) > 0 THEN BNDivFit(r, b, qhat - 1)
    ELSE qhat

BNDivEstimate(r2, b) ==
    IF Len(r2) > Len(b)
    THEN (r2[Len(r2)] * LimbBase + r2[Len(r2) - 1]) \div b[Len(b)]
    ELSE IF Len(r2) = Len(b) THEN r2[Len(r2)] \div b[Len(b)]
    ELSE 0

BNDivCap(est) == IF est >= LimbBase THEN LimbBase - 1 ELSE est

BNDivDigit(st, r2, b, qhat) ==
    [q |-> BNTrim(<<qhat>> \o st.q), r |-> BNSub(r2, BNMulSmall(b, qhat)),
     i |-> st.i - 1]

BNDivBring(st, r2, b) ==
    BNDivDigit(st, r2, b, BNDivFit(r2, b, BNDivCap(BNDivEstimate(r2, b))))

BNDivStep(st, a, b) == BNDivBring(st, BNTrim(<<a[st.i]>> \o st.r), b)

\* The dividend limbs st.i..1, most significant first
RECURSIVE BNDivLoop(_, _, _)
BNDivLoop(st, a, b) ==
    IF st.i = 0 THEN st ELSE BNDivLoop(BNDivStep(st, a, b), a, b)

\* The limbs of the dividend above i0 are below the divisor: they start
\* the remainder
BNDivStart(a, b, i0) ==
    BNDivLoop([q |-> <<>>, r |-> SubSeq(a, i0 + 1, Len(a)), i |-> i0], a, b)

BNDivNormalized(a, b) ==
    BNDivStart(a, b, IF Len(a) < Len(b) THEN 0 ELSE Len(a) - Len(b) + 1)

\* The shift that brings the top limb of b to LimbBase / 2 or more
BNDivShift(b) == (LimbBits - (BNBitLen(b) % LimbBits)) % LimbBits

BNDivResult(d) == [q |-> d.q, exact |-> d.r = <<>>]

\* floor(a / b) for b # 0, and whether the division is exact
BNDiv(a, b) ==
    IF a = <<>> THEN [q |-> <<>>, exact |-> TRUE]
    ELSE BNDivResult(BNDivNormalized(BNShl(a, BNDivShift(b)),
                                     BNShl(b, BNDivShift(b))))

(***************************************************************************)
(* Python floats.  A finite float is [neg, man, exp]: man is zero (<<>>)   *)
(* or has exactly FloatPrecision bits, so equal values are equal records.  *)
(* Infinities, NaN and subnormals are outside the model: the inputs are    *)
(* bounded so that no exponent leaves the binary64 range.                  *)
(***************************************************************************)
FloatPrecision == 53

FZero == [neg |-> FALSE, man |-> <<>>, exp |-> 0]

\* A mantissa q of FloatPrecision bits, or one more after a round up
FRoundCarry(neg, q, e) ==
    IF BNBitLen(q) > FloatPrecision
    THEN [neg |-> neg, man |-> BNShr(q, 1), exp |-> e + 1]
    ELSE [neg |-> neg, man |-> q, exp |-> e]

\* half is -1, 0, 1 as the part cut off is below, at, above half a unit
FRoundTail(neg, q, half, e, sticky) ==
    FRoundCarry(neg,
                IF half > 0 \/ (half = 0 /\ (sticky \/ BNIsOdd(q)))
                THEN BNAdd(q, <<1>>) ELSE q,
                e)

FRoundRest(neg, n, q, sh, e, sticky) ==
    FRoundTail(neg, q,
               BNCmp(BNSub(n, BNShl(q, sh)), BNShl(<<1>>, sh - 1)),
               e + sh, sticky)

\* The float nearest to (-1)^neg * (n + s) * 2^e, ties to even, where s is
\* some fraction in (0, 1) when sticky holds and 0 otherwise.
FRound(neg, n, e, sticky) ==
    IF n = <<>> THEN FZero
    ELSE IF BNBitLen(n) <= FloatPrecision
    THEN [neg |-> neg, man |-> BNShl(n, FloatPrecision - BNBitLen(n)),
          exp |-> e - (FloatPrecision - BNBitLen(n))]
    ELSE FRoundRest(neg, n, BNShr(n, BNBitLen(n) - FloatPrecision),
                    BNBitLen(n) - FloatPrecision, e, sticky)

FFromInt(k) == FRound(k < 0, BNFromInt(IF k < 0 THEN -k ELSE k), 0, FALSE)

FNeg(a) == IF a.man = <<>> THEN a ELSE [a EXCEPT !.neg = ~a.neg]

\* -1, 0, 1 as |a| < |b|, |a| = |b|, |a| > |b|
FCmpAbs(a, b) ==
    IF a.man = <<>> THEN (IF b.man = <<>> THEN 0 ELSE -1)
    ELSE IF b.man = <<>> THEN 1
    ELSE IF a.exp < b.exp THEN -1
    ELSE IF a.exp > b.exp THEN 1
    ELSE BNCmp(a.man, b.man)

FCmp(a, b) ==
    IF a.neg /\ ~b.neg THEN -1
    ELSE IF ~a.neg /\ b.neg THEN 1
    ELSE IF a.neg THEN -FCmpAbs(a, b)
    ELSE FCmpAbs(a, b)

FLt(a, b) == FCmp(a, b) < 0
FLe(a, b) == FCmp(a, b) <= 0
FGt(a, b) == FCmp(a, b) > 0
FGe(a, b) == FCmp(a, b) >= 0

\* Mantissas am, bm at a common exponent e, of opposite signs; c compares
\* them
FAddSigned(an, bn, am, bm, e, c) ==
    IF c = 0 THEN FZero
    ELSE IF c > 0 THEN FRound(an, BNSub(am, bm), e, FALSE)
    ELSE FRound(bn, BNSub(bm, am), e, FALSE)

FAddMan(an, bn, am, bm, e) ==
    IF an = bn THEN FRound(an, BNAdd(am, bm), e, FALSE)
    ELSE FAddSigned(an, bn, am, bm, e, BNCmp(am, bm))

FAddAligned(a, b, e) ==
    FAddMan(a.neg, b.neg, BNShl(a.man, a.exp - e), BNShl(b.man, b.exp - e), e)

\* a + b.  An operand more than FloatPrecision + 2 binary places below the
\* other cannot move the rounded sum.
FAdd(a, b) ==
    IF a.man = <<>> THEN b
    ELSE IF b.man = <<>> THEN a
    ELSE IF a.exp - b.exp > FloatPrecision + 2 THEN a
    ELSE IF b.exp - a.exp > FloatPrecision + 2 THEN b
    ELSE FAddAligned(a, b, IF a.exp < b.exp THEN a.exp ELSE b.exp)

FSub(a, b) == FAdd(a, FNeg(b))

FMul(a, b) ==
    IF a.man = <<>> \/ b.man = <<>> THEN FZero
    ELSE FRound(a.neg # b.neg, BNMul(a.man, b.man), a.exp + b.exp, FALSE)

FDivRound(a, b, d) ==
    FRound(a.neg # b.neg, d.q, a.exp - (FloatPrecision + 3) - b.exp, ~d.exact)

\* a / b for b # 0: FloatPrecision + 2 or more quotient bits, and the
\* remainder as the sticky bit
FDiv(a, b) ==
    IF a.man = <<>> THEN FZero
    ELSE FDivRound(a, b, BNDiv(BNShl(a.man, FloatPrecision + 3), b.man))

\* The float a decimal literal n * 10^(-k) denotes
FDec(n, k) == FDiv(FFromInt(n), FFromInt(10^k))

\* Python's min(a, b) and max(a, b): the first argument unless the second
\* is strictly smaller (larger)
FMin(a, b) == IF FLt(b, a) THEN b ELSE a
FMax(a, b) == IF FGt(b, a) THEN b ELSE a

(***************************************************************************)
(* x ** y for floats x >= 1 and y > 0 (the only use the program makes of   *)
(* it).  Python hands it to the C library's pow, whose result is one of    *)
(* the two floats that enclose exp(y * ln x): which of the two is a matter *)
(* of the build.  exp(y * ln x) is carried to FixBits binary places, far   *)
(* beyond the 53 bits of a float.  Numbers here are naturals counting      *)
(* units of 2^(-FixBits).                                                  *)
(***************************************************************************)
FixBits == 8 * LimbBits
FixOne  == BNShl(<<1>>, FixBits)

FixMul(a, b) == BNShr(BNMul(a, b), FixBits)

\* One more term of atanh z = z + z^3 / 3 + z^5 / 5 + ...: st.p is z^k
FixOddStep(st, z2, k) ==
    [sum |-> BNAdd(st.sum, BNDivSmall(st.p, k)), p |-> FixMul(st.p, z2)]

\* The terms from z^k on, four to a step, until they vanish
RECURSIVE FixOddSeries(_, _, _)
FixOddSeries(st, z2, k) ==
    IF st.p = <<>> THEN st.sum
    ELSE FixOddSeries(
             FixOddStep(FixOddStep(FixOddStep(FixOddStep(st, z2, k),
                 z2, k + 2), z2, k + 4), z2, k + 6),
             z2, k + 8)

FixLnSeries(z, z2) ==
    IF z2 = <<>> THEN BNMulSmall(z, 2)
    ELSE BNMulSmall(FixOddSeries([sum |-> <<>>, p |-> z], z2, 1), 2)

FixLnAtanh(z) == IF z = <<>> THEN <<>> ELSE FixLnSeries(z, FixMul(z, z))

\* ln x = 2 atanh((x - 1) / (x + 1)) for x >= 1 in fixed point
FixLn(x) ==
    FixLnAtanh(BNDiv(BNShl(BNSub(x, FixOne), FixBits), BNAdd(x, FixOne)).q)

\* One more term of exp t = 1 + t + t^2 / 2! + ...: st.p is t^k / k!
FixExpStep(st, t, k) ==
    [sum |-> BNAdd(st.sum, st.p), p |-> BNDivSmall(FixMul(st.p, t), k + 1)]

\* The terms from t^k / k! on, four to a step, until they vanish
RECURSIVE FixExpSeries(_, _, _)
FixExpSeries(st, t, k) ==
    IF st.p = <<>> THEN st.sum
    ELSE FixExpSeries(
             FixExpStep(FixExpStep(FixExpStep(FixExpStep(st, t, k),
                 t, k + 1), t, k + 2), t, k + 3),
             t, k + 4)

FixExp(t) ==
    IF t = <<>> THEN FixOne
    ELSE FixExpSeries([sum |-> <<>>, p |-> FixOne], t, 0)

\* a float >= 0 in fixed point (exact when its last bit is no finer)
FixFromFloat(a) ==
    IF a.exp + FixBits >= 0 THEN BNShl(a.man, a.exp + FixBits)
    ELSE BNShr(a.man, -(a.exp + FixBits))

\* exp(y * ln x) in fixed point
FixPow(lnx, y) == FixExp(FixMul(lnx, FixFromFloat(y)))

\* The float of the two enclosing exp(y * ln x) that is nearer to it
FPowExp(lnx, y) ==
    IF lnx = <<>> THEN FFromInt(1)
    ELSE FRound(FALSE, FixPow(lnx, y), -FixBits, TRUE)

FPow(x, y) == FPowExp(FixLn(FixFromFloat(x)), y)

\* The floats next below and next above n * 2^e, n of more than
\* FloatPrecision bits and not a float itself
FBelow(n, e, sh) == [neg |-> FALSE, man |-> BNShr(n, sh), exp |-> e + sh]
FAbove(n, e, sh) == FRoundCarry(FALSE, BNAdd(BNShr(n, sh), <<1>>), e + sh)

\* The float of the two enclosing p * 2^(-FixBits) that is not near
FFarOf(p, near) ==
    IF FBelow(p, -FixBits, BNBitLen(p) - FloatPrecision) = near
    THEN FAbove(p, -FixBits, BNBitLen(p) - FloatPrecision)
    ELSE FBelow(p, -FixBits, BNBitLen(p) - FloatPrecision)

\* The float of the two enclosing exp(y * ln x) that is farther from it
FPowFarExp(lnx, y) ==
    IF lnx = <<>> THEN FFromInt(1)
    ELSE FFarOf(FixPow(lnx, y), FPowExp(lnx, y))

\* x ** 1 is x itself, and then there is no second float
FPowFar(x, y) ==
    IF y = FFromInt(1) THEN x ELSE FPowFarExp(FixLn(FixFromFloat(x)), y)

\* What x ** y may be, from one build to another
PowOutcomes(x, y) == {FPow(x, y), FPowFar(x, y)}

\* libm is the build's pow: the operands <<x, y>> for which it returns the
\* farther of the two floats; for all others it returns the nearer
VARIABLE libm

\* x ** y for floats: float_pow of the interpreter, the C library's pow
float_pow(x, y) == IF <<x, y>> \in libm THEN FPowFar(x, y) ELSE FPow(x, y)

(***************************************************************************)
(* The calculation functions.  The repository holds three versions of the  *)
(* same Streamlit script; variant says which one runs.                     *)
(***************************************************************************)
Variants == {"streamlit", "streamlit_v2", "streamlit_cloud_v0"}

\* DEFAULT_CDI = 11.15
DEFAULT_CDI == FDec(1115, 2)

\* monthly_rate = 0.005
monthly_rate == FDec(5, 3)

\* The tier-1 ceiling, 5000.0
limit_tier1 == FFromInt(5000)

\* The literals 1.10 and 0.80 that weigh the two tiers
tier1_base_multiplier == FDec(110, 2)
tier2_multiplier      == FDec(80, 2)

\* The operands of the power in calculate_daily_cdi
DailyOperands(annual_cdi_percent) ==
    <<FAdd(FFromInt(1), FDiv(annual_cdi_percent, FFromInt(100))),
      FDiv(FFromInt(1), FFromInt(365))>>

\* A faulty daily rate, to show what the growth property rests on: the
\* rate lost to rounding
calculate_daily_cdi_zero(annual_cdi_percent) == FZero

\* A faulty daily rate: the annual rate spread evenly over 365 days
calculate_daily_cdi_linear(annual_cdi_percent) ==
    FDiv(FDiv(annual_cdi_percent, FFromInt(100)), FFromInt(365))

\* (1 + annual_cdi) ** (1 / 365) - 1 with annual_cdi = annual_cdi_percent / 100
calculate_daily_cdi(annual_cdi_percent) ==
    FSub(float_pow(DailyOperands(annual_cdi_percent)[1],
                   DailyOperands(annual_cdi_percent)[2]),
         FFromInt(1))

\* A faulty tier-1 multiplier: the bonus dropped
tier1_multiplier_no_bonus(v, bonus_percent) == tier1_base_multiplier

\* 1.10 + bonus_percent / 100; the first script has no bonus and uses 1.10
tier1_multiplier(v, bonus_percent) ==
    IF v = "streamlit" THEN tier1_base_multiplier
    ELSE FAdd(tier1_base_multiplier, FDiv(bonus_percent, FFromInt(100)))

\* A faulty tier-1 base: the ceiling left out
tier1_base_uncapped(day_start) == day_start

\* min(day_start, 5000.0)
tier1_base(day_start) == FMin(day_start, limit_tier1)

\* A faulty tier-2 base: the clamp at zero left out
tier2_base_unclamped(day_start) == FSub(day_start, limit_tier1)

\* max(0.0, day_start - 5000.0)
tier2_base(day_start) == FMax(FZero, FSub(day_start, limit_tier1))

\* A faulty tier-1 yield: the base taken after the day's own yield is added
tier1_yield_on_closing(day_start, daily_cdi, multiplier) ==
    FMul(FMul(tier1_base(FAdd(day_start, FMul(day_start, daily_cdi))),
              daily_cdi),
         multiplier)

\* tier1_base * daily_cdi * tier1_multiplier and tier2_base * daily_cdi * 0.80
tier1_yield(day_start, daily_cdi, multiplier) ==
    FMul(FMul(tier1_base(day_start), daily_cdi), multiplier)

tier2_yield(day_start, daily_cdi) ==
    FMul(FMul(tier2_base(day_start), daily_cdi), tier2_multiplier)

\* A faulty total: the tier-2 yield left out
total_yield_tier1_only(t1, t2) == t1

\* total_yield = tier1_yield + tier2_yield
total_yield(t1, t2) == FAdd(t1, t2)

\* current_value += total_yield
add_yield(current_value, yield) == FAdd(current_value, yield)

\* A faulty record: the closing balance taken before the yield is added
daily_record_stale(day, day_start, t1, t2, total, current_value) ==
    [Dia |-> day, ValorInicial |-> day_start, RendimentoFaixa1 |-> t1,
     RendimentoFaixa2 |-> t2, RendimentoTotalDia |-> total,
     ValorFinal |-> day_start]

\* The dictionary appended for one day
daily_record(day, day_start, t1, t2, total, current_value) ==
    [Dia |-> day, ValorInicial |-> day_start, RendimentoFaixa1 |-> t1,
     RendimentoFaixa2 |-> t2, RendimentoTotalDia |-> total,
     ValorFinal |-> current_value]

\* A faulty stop: range(1, days), one day short
pay_range_stop_short(days) == days

\* The days of "for day in range(1, days + 1)" are those below this stop
pay_range_stop(days) == days + 1

\* One pass of the loop body of calculate_99pay_returns, if a day is left:
\* st.day is the day to run, st.current_value the running balance
pay_loop_body(st, days, daily_cdi, multiplier) ==
    IF st.day >= pay_range_stop(days) THEN st
    ELSE LET day_start == st.current_value
             t1        == tier1_yield(day_start, daily_cdi, multiplier)
             t2        == tier2_yield(day_start, daily_cdi)
             total     == total_yield(t1, t2)
             current   == add_yield(day_start, total)
         IN  [day           |-> st.day + 1,
              current_value |-> current,
              rows          |-> Append(st.rows,
                                    daily_record(st.day, day_start, t1, t2,
                                                 total, current))]

\* The loop, four passes to a level
RECURSIVE pay_loop(_, _, _, _)
pay_loop(st, days, daily_cdi, multiplier) ==
    IF st.day >= pay_range_stop(days) THEN st.rows
    ELSE pay_loop(
             pay_loop_body(pay_loop_body(pay_loop_body(pay_loop_body(
                 st, days, daily_cdi, multiplier),
                 days, daily_cdi, multiplier),
                 days, daily_cdi, multiplier),
                 days, daily_cdi, multiplier),
             days, daily_cdi, multiplier)

\* The rows of the DataFrame calculate_99pay_returns returns
calculate_99pay_returns(v, initial_investment, days, annual_cdi_percent, bonus_percent) ==
    pay_loop([day |-> 1, current_value |-> initial_investment, rows |-> <<>>],
             days, calculate_daily_cdi(annual_cdi_percent),
             tier1_multiplier(v, bonus_percent))

\* A faulty anniversary: a credit every seventh day
is_anniversary_weekly(day) == day % 7 = 0

\* day % 30 == 0
is_anniversary(day) == day % 30 = 0

\* current_value *= (1 + monthly_rate)
credit(current_value) == FMul(current_value, FAdd(FFromInt(1), monthly_rate))

\* A faulty stop: range(1, days), one day short
savings_range_stop_short(days) == days

\* The days of the savings loop are those below this stop
savings_range_stop(days) == days + 1

\* One pass of the loop body of calculate_daily_savings_values, if a day is
\* left.  streamlit_cloud_v0 credits and then appends; streamlit_v2 appends
\* and then credits.
savings_loop_body(v, st, days) ==
    IF st.day >= savings_range_stop(days) THEN st
    ELSE LET credited == IF is_anniversary(st.day)
                         THEN credit(st.current_value)
                         ELSE st.current_value
         IN  [day           |-> st.day + 1,
              current_value |-> credited,
              daily_values  |-> Append(st.daily_values,
                                    IF v = "streamlit_cloud_v0" THEN credited
                                    ELSE st.current_value)]

RECURSIVE savings_loop(_, _, _)
savings_loop(v, st, days) ==
    IF st.day >= savings_range_stop(days) THEN st.daily_values
    ELSE savings_loop(v,
             savings_loop_body(v, savings_loop_body(v, savings_loop_body(v,
                 savings_loop_body(v, st, days), days), days), days),
             days)

\* The list calculate_daily_savings_values returns (streamlit_v2 and
\* streamlit_cloud_v0)
calculate_daily_savings_values(v, initial_value, days) ==
    savings_loop(v, [day |-> 1, current_value |-> initial_value,
                     daily_values |-> <<>>], days)

\* calculate_savings_return of the first script: 0 below 30 days, else
\* initial_value * (1 + monthly_rate) ** (days // 30) - initial_value
calculate_savings_return(initial_value, days) ==
    IF days < 30 THEN FZero
    ELSE FSub(FMul(initial_value,
                   float_pow(FAdd(FFromInt(1), monthly_rate),
                             FFromInt(days \div 30))),
              initial_value)

(***************************************************************************)
(* Formatting.  Python prints a float to two decimals by rounding its      *)
(* exact binary value to the nearest hundredth, ties to even.              *)
(***************************************************************************)
FixedPick(q, c) ==
    IF c > 0 \/ (c = 0 /\ BNIsOdd(q)) THEN BNAdd(q, BNFromInt(1)) ELSE q

FixedRoundUp(q, n, sh) ==
    FixedPick(q, BNCmp(BNSub(n, BNShl(q, sh)), BNShl(BNFromInt(1), sh - 1)))

\* n / 2^sh to the nearest integer, ties to even, for sh >= 1
FixedRound(n, sh) == FixedRoundUp(BNShr(n, sh), n, sh)

\* |a| in hundredths, rounded: the integer whose digits ".2f" prints
FixedScaled(a) ==
    IF a.man = <<>> THEN <<>>
    ELSE IF a.exp >= 0 THEN BNShl(BNMulSmall(a.man, 100), a.exp)
    ELSE FixedRound(BNMulSmall(a.man, 100), 0 - a.exp)

BNDigitsStep(n, q, rest) ==
    Append(rest, Limb(BNSub(n, BNMulSmall(q, 10)), 1))

\* The decimal digits of n, the most significant first; none for 0
RECURSIVE BNDigits(_)
BNDigits(n) ==
    IF n = <<>> THEN <<>>
    ELSE BNDigitsStep(n, BNDivSmall(n, 10), BNDigits(BNDivSmall(n, 10)))

\* At least one digit before the point and two after it
PadDigits(ds) ==
    IF Len(ds) >= 3 THEN ds
    ELSE [i \in 1..3 |-> IF i <= 3 - Len(ds) THEN 0 ELSE ds[i - (3 - Len(ds))]]

\* The digits ds[i..hi] as text, sep between the groups of three counted
\* from ds[hi]
RECURSIVE JoinDigits(_, _, _, _)
JoinDigits(ds, i, hi, sep) ==
    IF i > hi THEN ""
    ELSE ToString(ds[i])
             \o (IF i < hi /\ (hi - i) % 3 = 0 THEN sep ELSE "")
             \o JoinDigits(ds, i + 1, hi, sep)

FormatDigits(neg, ds, thousands, point) ==
    (IF neg THEN "-" ELSE "")
        \o JoinDigits(ds, 1, Len(ds) - 2, thousands)
        \o point
        \o JoinDigits(ds, Len(ds) - 1, Len(ds), "")

\* f"{value:,.2f}" with the separators given
FormatFixed2(value, thousands, point) ==
    FormatDigits(value.neg, PadDigits(BNDigits(FixedScaled(value))),
                 thousands, point)

\* f"R$ {value:,.2f}" with "," and "." exchanged by the three replaces
format_currency(value) == "R$ " \o FormatFixed2(value, ".", ",")

\* f"{percent:.2f}%"
format_percent(percent) == FormatFixed2(percent, "", ".") \o "%"

\* format_period of streamlit_cloud_v0
format_period(days) ==
    IF days <= 0 THEN ToString(days) \o " dias"
    ELSE IF days = 1 THEN "1 dia"
    ELSE IF days % 365 = 0
    THEN ToString(days \div 365) \o " ano"
             \o (IF days \div 365 > 1 THEN "s" ELSE "")
    ELSE IF days = 31 THEN "1 mes"
    ELSE IF days % 30 = 0
    THEN ToString(days \div 30) \o " "
             \o (IF days \div 30 > 1 THEN "meses" ELSE "mes")
    ELSE IF days % 7 = 0
    THEN ToString(days \div 7) \o " semana"
             \o (IF days \div 7 > 1 THEN "s" ELSE "")
    ELSE ToString(days) \o " dias"

(***************************************************************************)
(* State. session_state holds the form fields; a field that is empty is   *)
(* None and a filled one is Some(value).  args are the arguments of the    *)
(* last projection; results_df, no_bonus_df and savings_daily_values are   *)
(* what the functions returned; screen is what the script rendered;        *)
(* daily_rate is what calculate_daily_cdi returned when called on its own; *)
(* libm, declared with float_pow, is the build's pow and never changes.    *)
(* pc is "idle" when a run of the script has ended and the page waits for  *)
(* the user.  frame holds the local variables of the call of               *)
(* calculate_99pay_returns that is under way or was made last, where the   *)
(* call is followed line by line.  cleared is a history variable: the      *)
(* fields are as a press of "Limpar Simulacao" left them.                  *)
(***************************************************************************)
VARIABLES variant, session_state, pc, args, results_df, no_bonus_df,
          savings_daily_values, screen, daily_rate, frame, cleared

vars == <<variant, session_state, pc, args, results_df, no_bonus_df,
          savings_daily_values, screen, daily_rate, libm, frame, cleared>>

None    == <<>>
Some(v) == <<v>>

\* The form as the script first draws it
InitialForm ==
    [initial_investment |-> None, days |-> None, bonus_percent |-> FZero,
     cdi_rate |-> DEFAULT_CDI]

\* No page: the function is called on its own, the script body is not run
BlankScreen == [kind |-> "blank"]

(***************************************************************************)
(* Bounds and input values.                                                *)
(***************************************************************************)
MaxPayDays == 3
MaxSavingsDays == 61

\* Principals in centavos: the smallest the form accepts, amounts below,
\* at, just under and above the tier-1 ceiling
PrincipalCents == {1, 100000, 499950, 500000, 500030, 1000000}

\* 2^56 + 5008 = 72057594037932944.0, a float whose neighbours are 16 apart:
\* the field has a minimum and no maximum
LargePrincipal ==
    [neg |-> FALSE, man |-> BNAdd(BNShl(<<1>>, 52), BNFromInt(313)), exp |-> 4]

Principals == {FDec(c, 2) : c \in PrincipalCents} \cup {LargePrincipal}

\* Annual rates in hundredths of a percent: the smallest the form accepts
\* and the default
CdiRates == {FDec(1, 2), DEFAULT_CDI}

\* Bonus percentages; the first script has none
Bonuses(v) == IF v = "streamlit" THEN {FZero} ELSE {FZero, FFromInt(10)}

(***************************************************************************)
(* calculate_99pay_returns on its own: the arguments are drawn at the      *)
(* start, PayCall applies the function and, as the script does for a       *)
(* positive bonus, BaselineCall applies it again with bonus 0.             *)
(***************************************************************************)
InitPay ==
    /\ variant \in Variants
    /\ args \in [initial_investment : Principals, days : 1..MaxPayDays,
                 annual_cdi_percent : CdiRates, bonus_percent : Bonuses(variant)]
    /\ session_state = InitialForm
    /\ pc = "ready"
    /\ results_df = <<>>
    /\ no_bonus_df = <<>>
    /\ savings_daily_values = <<>>
    /\ screen = BlankScreen
    /\ daily_rate = None
    /\ frame = None
    /\ cleared = FALSE
    /\ libm \in SUBSET {DailyOperands(args.annual_cdi_percent)}

PayCall ==
    /\ pc = "ready"
    /\ results_df' = calculate_99pay_returns(variant, args.initial_investment,
                         args.days, args.annual_cdi_percent, args.bonus_percent)
    /\ pc' = "returned"
    /\ UNCHANGED <<variant, session_state, args, no_bonus_df,
                   savings_daily_values, screen,
                   daily_rate, libm, frame, cleared>>

BaselineCall ==
    /\ pc = "returned"
    /\ FGt(args.bonus_percent, FZero)
    /\ no_bonus_df' = calculate_99pay_returns(variant, args.initial_investment,
                          args.days, args.annual_cdi_percent, FZero)
    /\ pc' = "compared"
    /\ UNCHANGED <<variant, session_state, args, results_df,
                   savings_daily_values, screen,
                   daily_rate, libm, frame, cleared>>

NextPay == PayCall \/ BaselineCall

SpecPay == InitPay /\ [][NextPay]_vars

(***************************************************************************)
(* The same two calls over the inputs of a bonus comparison: the scripts   *)
(* that have the bonus field, a positive bonus down to the field's step of *)
(* 0.01, and a principal as large as the field accepts (it has a minimum   *)
(* and no maximum).                                                        *)
(***************************************************************************)
\* The principals of SpecPay and ten thousand millions
BonusPrincipals == Principals \cup {FMul(FFromInt(100000), FFromInt(100000))}

\* A bonus of 0.01 % and one of 10 %
PositiveBonuses == {FDec(1, 2), FFromInt(10)}

InitBonus ==
    /\ variant \in {"streamlit_v2", "streamlit_cloud_v0"}
    /\ args \in [initial_investment : BonusPrincipals, days : 1..MaxPayDays,
                 annual_cdi_percent : CdiRates, bonus_percent : PositiveBonuses]
    /\ session_state = InitialForm
    /\ pc = "ready"
    /\ results_df = <<>>
    /\ no_bonus_df = <<>>
    /\ savings_daily_values = <<>>
    /\ screen = BlankScreen
    /\ daily_rate = None
    /\ frame = None
    /\ cleared = FALSE
    /\ libm \in SUBSET {DailyOperands(args.annual_cdi_percent)}

SpecBonus == InitBonus /\ [][NextPay]_vars

(***************************************************************************)
(* Calls of calculate_99pay_returns followed line by line, the local       *)
(* variables in frame: the call of a press of "Calcular Rendimento", the   *)
(* bonus-0 baseline call when the bonus is positive, and the call of a     *)
(* second press with the same inputs.  frame keeps what the call before    *)
(* left in it until the next call writes its own locals.                   *)
(***************************************************************************)
\* A faulty entry: rows is a list that outlives the call, as a module-level
\* list or a mutable default argument would be
entry_locals_shared_rows(v, initial_investment, days, annual_cdi_percent, bonus_percent) ==
    [st |-> [day |-> 1, current_value |-> initial_investment,
             rows |-> IF frame = None THEN <<>> ELSE frame[1].st.rows],
     days |-> days,
     daily_cdi |-> calculate_daily_cdi(annual_cdi_percent),
     tier1_multiplier |-> tier1_multiplier(v, bonus_percent)]

\* The locals when the call reaches the loop: daily_cdi, tier1_multiplier,
\* current_value = initial_investment, rows = []
entry_locals(v, initial_investment, days, annual_cdi_percent, bonus_percent) ==
    [st |-> [day |-> 1, current_value |-> initial_investment, rows |-> <<>>],
     days |-> days,
     daily_cdi |-> calculate_daily_cdi(annual_cdi_percent),
     tier1_multiplier |-> tier1_multiplier(v, bonus_percent)]

\* The next call is the baseline call: no_bonus_df is computed when the
\* bonus is positive
BaselineDue == pc = "returned" /\ FGt(args.bonus_percent, FZero)

\* The function is entered: the first call, the baseline call with bonus 0,
\* or the call of the second press
call_enter ==
    /\ pc \in {"ready", "returned", "compared"}
    /\ frame' = Some(entry_locals(variant, args.initial_investment, args.days,
                         args.annual_cdi_percent,
                         IF BaselineDue THEN FZero ELSE args.bonus_percent))
    /\ pc' = (IF pc = "ready" THEN "first"
              ELSE IF BaselineDue THEN "baseline" ELSE "repeat")
    /\ UNCHANGED <<variant, session_state, args, results_df, no_bonus_df,
                   savings_daily_values, screen, daily_rate, libm, cleared>>

\* One pass of the loop
loop_pass ==
    /\ pc \in {"first", "baseline", "repeat"}
    /\ frame[1].st.day < pay_range_stop(frame[1].days)
    /\ frame' = Some([frame[1] EXCEPT
                         !.st = pay_loop_body(@, frame[1].days,
                                    frame[1].daily_cdi,
                                    frame[1].tier1_multiplier)])
    /\ UNCHANGED <<variant, session_state, pc, args, results_df, no_bonus_df,
                   savings_daily_values, screen, daily_rate, libm, cleared>>

\* return pd.DataFrame(rows): into no_bonus_df from the baseline call, into
\* results_df from the others
call_return ==
    /\ pc \in {"first", "baseline", "repeat"}
    /\ frame[1].st.day >= pay_range_stop(frame[1].days)
    /\ IF pc = "baseline"
       THEN no_bonus_df' = frame[1].st.rows /\ UNCHANGED results_df
       ELSE results_df' = frame[1].st.rows /\ UNCHANGED no_bonus_df
    /\ pc' = (IF pc = "first" THEN "returned"
              ELSE IF pc = "baseline" THEN "compared" ELSE "repeated")
    /\ UNCHANGED <<variant, session_state, args, savings_daily_values, screen,
                   daily_rate, libm, frame, cleared>>

NextRepeat == call_enter \/ loop_pass \/ call_return

SpecRepeat == InitPay /\ [][NextRepeat]_vars

(***************************************************************************)
(* calculate_daily_savings_values on its own, in the two scripts that have *)
(* it.                                                                     *)
(***************************************************************************)
InitSav ==
    /\ variant \in {"streamlit_v2", "streamlit_cloud_v0"}
    /\ args \in [initial_investment : Principals, days : 1..MaxSavingsDays,
                 annual_cdi_percent : {DEFAULT_CDI}, bonus_percent : {FZero}]
    /\ session_state = InitialForm
    /\ pc = "ready"
    /\ results_df = <<>>
    /\ no_bonus_df = <<>>
    /\ savings_daily_values = <<>>
    /\ screen = BlankScreen
    /\ daily_rate = None
    /\ frame = None
    /\ cleared = FALSE
    /\ libm = {}

SavingsCall ==
    /\ pc = "ready"
    /\ savings_daily_values' =
           calculate_daily_savings_values(variant, args.initial_investment,
                                          args.days)
    /\ pc' = "returned"
    /\ UNCHANGED <<variant, session_state, args, results_df, no_bonus_df,
                   screen,
                   daily_rate, libm, frame, cleared>>

NextSav == SavingsCall

SpecSav == InitSav /\ [][NextSav]_vars

(***************************************************************************)
(* calculate_daily_cdi on its own, as each of the three scripts defines    *)
(* it: annual rates from 0.01 % in steps of a quarter percent, 6.09 %, the *)
(* default and 100 %.                                                      *)
(***************************************************************************)
MaxRateSteps == 60

RateHundredths == {1, 609, 1115, 10000} \cup {25 * k : k \in 1..MaxRateSteps}

AnnualRates == {FDec(h, 2) : h \in RateHundredths}

InitCdi ==
    /\ variant \in Variants
    /\ args \in [annual_cdi_percent : AnnualRates]
    /\ session_state = InitialForm
    /\ pc = "ready"
    /\ results_df = <<>>
    /\ no_bonus_df = <<>>
    /\ savings_daily_values = <<>>
    /\ screen = BlankScreen
    /\ daily_rate = None
    /\ frame = None
    /\ cleared = FALSE
    /\ libm \in SUBSET {DailyOperands(args.annual_cdi_percent)}

CdiCall ==
    /\ pc = "ready"
    /\ daily_rate' = Some(calculate_daily_cdi(args.annual_cdi_percent))
    /\ pc' = "returned"
    /\ UNCHANGED <<variant, session_state, args, results_df, no_bonus_df,
                   savings_daily_values, screen, libm, frame, cleared>>

NextCdi == CdiCall

SpecCdi == InitCdi /\ [][NextCdi]_vars

(***************************************************************************)
(* The page.  Every event reruns the script top to bottom; an action is    *)
(* one event and the rerun it causes.  session_state holds what the        *)
(* widgets show.  The results are local variables of the run that pressed  *)
(* "Calcular Rendimento": a later run caused by anything else draws the   *)
(* hint of the else branch instead.  The widgets of                        *)
(* streamlit_cloud_v0 sit in a form, so editing them causes no rerun.      *)
(* screen holds the messages and the summary metrics; the chart and the    *)
(* table are drawn from results_df, no_bonus_df and savings_daily_values.  *)
(***************************************************************************)
UIPrincipalCents == {600000}
UIPrincipals     == {FDec(c, 2) : c \in UIPrincipalCents}
UIDays           == {29, 30}

InfoScreen == [kind |-> "info"]

\* What a run draws below the title when "Calcular Rendimento" was not
\* pressed: the three scripts have the same else branch
IdleScreen(v) == InfoScreen

InForm(v) == v = "streamlit_cloud_v0"

\* A run that was not started by "Calcular Rendimento"
Rerun ==
    /\ screen' = IdleScreen(variant)
    /\ args' = None
    /\ results_df' = <<>>
    /\ no_bonus_df' = <<>>
    /\ savings_daily_values' = <<>>

\* What a change of a number_input causes: a rerun, unless the widget sits
\* in a form
WidgetChanged ==
    IF InForm(variant)
    THEN UNCHANGED <<screen, args, results_df, no_bonus_df,
                     savings_daily_values>>
    ELSE Rerun

\* The user changes "Valor Investido (R$)"; x is None for an emptied field
SetInitialInvestment(x) ==
    /\ pc = "idle"
    /\ session_state' = [session_state EXCEPT !.initial_investment = x]
    /\ WidgetChanged
    /\ cleared' = FALSE
    /\ UNCHANGED <<variant, pc, daily_rate, libm, frame>>

\* The user changes "Periodo (em dias)"; d is None for an emptied field
SetDays(d) ==
    /\ pc = "idle"
    /\ session_state' = [session_state EXCEPT !.days = d]
    /\ WidgetChanged
    /\ cleared' = FALSE
    /\ UNCHANGED <<variant, pc, daily_rate, libm, frame>>

\* The user changes "Bonus Adicional (%)", which the first script lacks
SetBonus(b) ==
    /\ pc = "idle"
    /\ variant # "streamlit"
    /\ session_state' = [session_state EXCEPT !.bonus_percent = b]
    /\ WidgetChanged
    /\ cleared' = FALSE
    /\ UNCHANGED <<variant, pc, daily_rate, libm, frame>>

\* The user changes "Taxa CDI Anual (%)"
SetCdi(r) ==
    /\ pc = "idle"
    /\ session_state' = [session_state EXCEPT !.cdi_rate = r]
    /\ WidgetChanged
    /\ UNCHANGED <<variant, pc, daily_rate, libm, frame, cleared>>

\* streamlit_cloud_v0 assigns the keys of its widgets in the script body,
\* after the widgets were created in the same run: Streamlit raises
\* StreamlitAPIException at the first assignment.  No field changes,
\* st.rerun() is not reached and the run ends before "if calculate_button"
StreamlitAPIException ==
    /\ screen' = [kind |-> "exception"]
    /\ args' = None
    /\ results_df' = <<>>
    /\ no_bonus_df' = <<>>
    /\ savings_daily_values' = <<>>
    /\ UNCHANGED <<session_state, cleared>>

\* "Redefinir CDI": an on_click callback in streamlit_v2 and the first
\* script
reset_cdi_callback ==
    /\ pc = "idle"
    /\ IF variant = "streamlit_cloud_v0" THEN StreamlitAPIException
       ELSE /\ session_state' = [session_state EXCEPT !.cdi_rate = DEFAULT_CDI]
            /\ Rerun
            /\ UNCHANGED cleared
    /\ UNCHANGED <<variant, pc, daily_rate, libm, frame>>

\* "Limpar Simulacao": an on_click callback in streamlit_v2, which keeps
\* the CDI; the first script has no such button
clear_simulation_callback ==
    /\ pc = "idle"
    /\ variant # "streamlit"
    /\ IF variant = "streamlit_cloud_v0" THEN StreamlitAPIException
       ELSE /\ session_state' = [session_state EXCEPT
                                    !.initial_investment = None,
                                    !.bonus_percent = FZero,
                                    !.days = None]
            /\ Rerun
            /\ cleared' = TRUE
    /\ UNCHANGED <<variant, pc, daily_rate, libm, frame>>

\* The validations at the top of "if calculate_button": the message shown,
\* or None when the inputs pass (accents dropped from the texts)
validation_error(v, form) ==
    IF v = "streamlit_cloud_v0"
    THEN IF form.initial_investment = None
            \/ FLe(form.initial_investment[1], FZero)
         THEN Some("Informe um **Valor Investido (R$)** valido (maior que zero).")
         ELSE IF form.days = None \/ form.days[1] < 1
         THEN Some("Informe um **Periodo (em dias)** valido (minimo 1).")
         ELSE IF FLe(form.cdi_rate, FZero)
         THEN Some("Informe uma **Taxa CDI Anual (%)** valida (maior que zero).")
         ELSE None
    ELSE IF form.initial_investment = None
            \/ form.initial_investment[1] = FZero
            \/ form.days = None
            \/ form.days[1] = 0
         THEN Some("Por favor, preencha os campos 'Valor Investido' e 'Periodo' para continuar.")
         ELSE None

\* final_value - initial_investment
summary_total_yield(final_value, initial_investment) ==
    FSub(final_value, initial_investment)

\* (total_yield / initial_investment) * 100
percent_yield(yield, initial_investment) ==
    FMul(FDiv(yield, initial_investment), FFromInt(100))

\* The first script asks calculate_savings_return; the others take the last
\* element of the savings series, less the principal
savings_yield(v, initial_investment, days, savings) ==
    IF v = "streamlit" THEN calculate_savings_return(initial_investment, days)
    ELSE FSub(IF savings # <<>> THEN savings[Len(savings)]
              ELSE initial_investment,
              initial_investment)

savings_percent_yield(yield, initial_investment) ==
    IF FGt(initial_investment, FZero)
    THEN percent_yield(yield, initial_investment)
    ELSE FZero

\* Whether the savings metric carries numbers: always in the first script,
\* from 30 days on in the others
savings_metric_numeric(v, days) == v = "streamlit" \/ days >= 30

pay_color(v, days, percent, savings_percent) ==
    IF v = "streamlit_cloud_v0" /\ days >= 30
       /\ ~FGt(percent, savings_percent) /\ FGt(savings_percent, percent)
    THEN "inverse" ELSE "normal"

savings_color(v, days, percent, savings_percent) ==
    IF v = "streamlit_cloud_v0" /\ days >= 30 /\ FGt(percent, savings_percent)
    THEN "inverse" ELSE "normal"

\* The metrics of "Resumo da Simulacao"
SummaryMetrics(v, initial_investment, days, final_value, yield, percent, sav_yield, sav_percent) ==
    [kind                      |-> "summary",
     tempo                     |-> IF v = "streamlit_cloud_v0"
                                   THEN Some(format_period(days)) ELSE None,
     valor_investido           |-> format_currency(initial_investment),
     valor_final               |-> format_currency(final_value),
     rendimento_total          |-> format_currency(yield),
     rendimento_total_delta    |-> format_percent(percent),
     rendimento_total_color    |-> pay_color(v, days, percent, sav_percent),
     rendimento_poupanca       |-> IF savings_metric_numeric(v, days)
                                   THEN format_currency(sav_yield) ELSE "N/A",
     rendimento_poupanca_delta |-> IF savings_metric_numeric(v, days)
                                   THEN Some(format_percent(sav_percent))
                                   ELSE None,
     rendimento_poupanca_color |-> savings_color(v, days, percent, sav_percent)]

SummaryYields(v, initial_investment, days, final_value, yield, sav_yield) ==
    SummaryMetrics(v, initial_investment, days, final_value, yield,
                   percent_yield(yield, initial_investment), sav_yield,
                   savings_percent_yield(sav_yield, initial_investment))

SummaryFinal(v, initial_investment, days, final_value, savings) ==
    SummaryYields(v, initial_investment, days, final_value,
                  summary_total_yield(final_value, initial_investment),
                  savings_yield(v, initial_investment, days, savings))

\* The summary of a run: results are the rows of results_df and savings the
\* savings series
Summary(v, a, results, savings) ==
    SummaryFinal(v, a.initial_investment, a.days,
                 results[Len(results)].ValorFinal, savings)

\* A faulty rejection: the error is drawn over the results of the run before
RejectedKeepsResults(message) ==
    /\ screen' = [kind |-> "error", message |-> message]
    /\ UNCHANGED <<args, results_df, no_bonus_df, savings_daily_values>>

\* st.error(message): the run draws the message and computes nothing
Rejected(message) ==
    /\ screen' = [kind |-> "error", message |-> message]
    /\ args' = None
    /\ results_df' = <<>>
    /\ no_bonus_df' = <<>>
    /\ savings_daily_values' = <<>>

\* "Calcular Rendimento": the whole of "if calculate_button"
calculate_button ==
    /\ pc = "idle"
    /\ UNCHANGED <<variant, session_state, pc, daily_rate, libm, frame, cleared>>
    /\ IF validation_error(variant, session_state) # None
       THEN Rejected(validation_error(variant, session_state)[1])
       ELSE /\ args' = [initial_investment |-> session_state.initial_investment[1],
                        days               |-> session_state.days[1],
                        annual_cdi_percent |-> session_state.cdi_rate,
                        bonus_percent      |-> session_state.bonus_percent]
            /\ results_df' =
                   calculate_99pay_returns(variant, args'.initial_investment,
                       args'.days, args'.annual_cdi_percent, args'.bonus_percent)
            /\ savings_daily_values' =
                   (IF variant = "streamlit" THEN <<>>
                    ELSE calculate_daily_savings_values(variant,
                             args'.initial_investment, args'.days))
            /\ no_bonus_df' =
                   (IF variant # "streamlit" /\ FGt(args'.bonus_percent, FZero)
                    THEN calculate_99pay_returns(variant,
                             args'.initial_investment, args'.days,
                             args'.annual_cdi_percent, FZero)
                    ELSE <<>>)
            /\ screen' = Summary(variant, args', results_df',
                                 savings_daily_values')

Init ==
    /\ variant \in Variants
    /\ session_state = InitialForm
    /\ pc = "idle"
    /\ args = None
    /\ results_df = <<>>
    /\ no_bonus_df = <<>>
    /\ savings_daily_values = <<>>
    /\ screen = IdleScreen(variant)
    /\ daily_rate = None
    /\ frame = None
    /\ cleared = FALSE
    /\ libm \in SUBSET {DailyOperands(r) : r \in CdiRates}

Next ==
    \/ \E x \in {None} \cup {Some(p) : p \in UIPrincipals} :
           SetInitialInvestment(x)
    \/ \E d \in {None} \cup {Some(n) : n \in UIDays} : SetDays(d)
    \/ \E b \in Bonuses("streamlit_v2") : SetBonus(b)
    \/ \E r \in CdiRates : SetCdi(r)
    \/ reset_cdi_callback
    \/ clear_simulation_callback
    \/ calculate_button

Spec == Init /\ [][Next]_vars


(***************************************************************************)
(* Properties of calculate_99pay_returns (under SpecPay).                  *)
(***************************************************************************)
Returned == pc # "ready"

Rows == 1..Len(results_df)

\* The daily rate the call under way computed
DailyCdi == calculate_daily_cdi(args.annual_cdi_percent)

\* C1: calculate_99pay_returns returns exactly `days` records, and the
\* record at 0-based position i carries Dia = i + 1 (position k of the
\* sequence, counted from 1, carries Dia = k).
C1_ExactlyDaysRecords ==
    Returned =>
        /\ Len(results_df) = args.days
        /\ \A k \in Rows : results_df[k].Dia = k

C1_Witness ==
    /\ Returned
    /\ args.days = MaxPayDays
    /\ Len(results_df) = MaxPayDays
    /\ results_df[MaxPayDays].Dia = MaxPayDays

\* C2: the first record's Valor Inicial is the principal, and every later
\* record's Valor Inicial is the Valor Final of the record before it.
C2_BalanceChain ==
    Returned =>
        /\ results_df[1].ValorInicial = args.initial_investment
        /\ \A k \in Rows :
               k > 1 => results_df[k].ValorInicial = results_df[k - 1].ValorFinal

C2_Witness ==
    /\ Returned
    /\ Len(results_df) >= 2
    /\ results_df[1].ValorInicial = args.initial_investment
    /\ results_df[2].ValorInicial = results_df[1].ValorFinal
    /\ results_df[2].ValorInicial # results_df[1].ValorInicial

\* C3: every record has Valor Final = Valor Inicial + Rendimento Total Dia
\* and Rendimento Total Dia = Rendimento Faixa 1 + Rendimento Faixa 2, as
\* float sums.
C3_RecordSums ==
    Returned =>
        \A k \in Rows :
            /\ results_df[k].ValorFinal =
                   FAdd(results_df[k].ValorInicial,
                        results_df[k].RendimentoTotalDia)
            /\ results_df[k].RendimentoTotalDia =
                   FAdd(results_df[k].RendimentoFaixa1,
                        results_df[k].RendimentoFaixa2)

C3_Witness ==
    /\ Returned
    /\ \E k \in Rows :
           /\ results_df[k].RendimentoFaixa1 # FZero
           /\ results_df[k].RendimentoFaixa2 # FZero
           /\ results_df[k].RendimentoTotalDia # results_df[k].RendimentoFaixa1
           /\ results_df[k].ValorFinal # results_df[k].ValorInicial

\* C4 as stated: on every day the tier bases split the start-of-day
\* balance: tier1_base + tier2_base = Valor Inicial, tier1_base <= 5000 and
\* tier2_base >= 0, the bases being the smaller of the balance and 5000,
\* and the excess over 5000 or zero.
C4_TierSplit ==
    Returned =>
        \A k \in Rows :
            /\ FAdd(tier1_base(results_df[k].ValorInicial),
                    tier2_base(results_df[k].ValorInicial))
                   = results_df[k].ValorInicial
            /\ FLe(tier1_base(results_df[k].ValorInicial), FFromInt(5000))
            /\ FGe(tier2_base(results_df[k].ValorInicial), FZero)
            /\ tier1_base(results_df[k].ValorInicial) =
                   (IF FLt(results_df[k].ValorInicial, FFromInt(5000))
                    THEN results_df[k].ValorInicial ELSE FFromInt(5000))
            /\ tier2_base(results_df[k].ValorInicial) =
                   (IF FGt(results_df[k].ValorInicial, FFromInt(5000))
                    THEN FSub(results_df[k].ValorInicial, FFromInt(5000))
                    ELSE FZero)

\* 2^56, from where on neighbouring floats are 16 apart and 5000 is no
\* multiple of their distance
ExactSplitLimit == [neg |-> FALSE, man |-> BNShl(<<1>>, 52), exp |-> 4]

\* C4, what the code guarantees: on every day tier1_base <= 5000,
\* tier2_base >= 0, the bases are the smaller of the balance and 5000 and
\* the float difference to 5000 or zero, and their sum is the start-of-day
\* balance when that balance is below 2^56.
C4_TierSplitBelowLimit ==
    Returned =>
        \A k \in Rows :
            /\ FLt(results_df[k].ValorInicial, ExactSplitLimit) =>
                   FAdd(tier1_base(results_df[k].ValorInicial),
                        tier2_base(results_df[k].ValorInicial))
                       = results_df[k].ValorInicial
            /\ FLe(tier1_base(results_df[k].ValorInicial), FFromInt(5000))
            /\ FGe(tier2_base(results_df[k].ValorInicial), FZero)
            /\ tier1_base(results_df[k].ValorInicial) =
                   (IF FLt(results_df[k].ValorInicial, FFromInt(5000))
                    THEN results_df[k].ValorInicial ELSE FFromInt(5000))
            /\ tier2_base(results_df[k].ValorInicial) =
                   (IF FGt(results_df[k].ValorInicial, FFromInt(5000))
                    THEN FSub(results_df[k].ValorInicial, FFromInt(5000))
                    ELSE FZero)

\* A run that starts under the ceiling and ends above it
C4_Witness ==
    /\ Returned
    /\ \E j, k \in Rows :
           /\ FLt(results_df[j].ValorInicial, limit_tier1)
           /\ FGt(results_df[k].ValorInicial, limit_tier1)
           /\ tier2_base(results_df[j].ValorInicial) = FZero
           /\ tier2_base(results_df[k].ValorInicial) # FZero

C6_BonusOnlyTier1 ==
    /\ Returned =>
           \A k \in Rows :
               /\ results_df[k].RendimentoFaixa1 =
                      FMul(FMul(FMin(results_df[k].ValorInicial, FFromInt(5000)),
                                DailyCdi),
                           FAdd(FDec(110, 2),
                                FDiv(args.bonus_percent, FFromInt(100))))
               /\ results_df[k].RendimentoFaixa2 =
                      FMul(FMul(FMax(FZero, FSub(results_df[k].ValorInicial,
                                                 FFromInt(5000))),
                                DailyCdi),
                           FDec(80, 2))
    /\ pc = "compared" =>
           \A k \in Rows :
               results_df[k].ValorInicial = no_bonus_df[k].ValorInicial
                   => results_df[k].RendimentoFaixa2
                          = no_bonus_df[k].RendimentoFaixa2

C6_Witness ==
    /\ pc = "compared"
    /\ args.bonus_percent = FFromInt(10)
    /\ results_df[1].ValorInicial = no_bonus_df[1].ValorInicial
    /\ results_df[1].RendimentoFaixa2 # FZero
    /\ results_df[1].RendimentoFaixa2 = no_bonus_df[1].RendimentoFaixa2
    /\ FGt(results_df[1].RendimentoFaixa1, no_bonus_df[1].RendimentoFaixa1)

(***************************************************************************)
(* Properties of calculate_daily_savings_values (under SpecSav).           *)
(***************************************************************************)
\* The balance after k monthly credits
RECURSIVE CreditedTimes(_, _)
CreditedTimes(value, k) ==
    IF k = 0 THEN value
    ELSE FMul(CreditedTimes(value, k - 1), FAdd(FFromInt(1), FDec(5, 3)))

\* C7: the monthly credit is visible on the boundary day itself: for every
\* k >= 1 with 30 * k <= days, the element at 0-based index 30 * k - 1 (the
\* 30k-th element) holds the balance after k credits.
C7_CreditOnBoundaryDay ==
    Returned =>
        \A k \in 1..(args.days \div 30) :
            savings_daily_values[30 * k] =
                CreditedTimes(args.initial_investment, k)

\* C7 holds of streamlit_cloud_v0, which credits before it appends
C7_CloudCreditsFirst ==
    (Returned /\ variant = "streamlit_cloud_v0") =>
        \A k \in 1..(args.days \div 30) :
            savings_daily_values[30 * k] =
                CreditedTimes(args.initial_investment, k)

\* streamlit_v2 at principal 1000.00 and 30 days: the 30th element is still
\* the principal
C7_Witness ==
    /\ Returned
    /\ variant = "streamlit_v2"
    /\ args.initial_investment = FDec(100000, 2)
    /\ args.days = 30
    /\ savings_daily_values[30] = FDec(100000, 2)
    /\ savings_daily_values[30] # CreditedTimes(FDec(100000, 2), 1)

\* C8: for days < 30 every element of the savings series is the principal.
C8_NoCreditBelow30 ==
    (Returned /\ args.days < 30) =>
        \A i \in 1..Len(savings_daily_values) :
            savings_daily_values[i] = args.initial_investment

C8_Witness ==
    /\ Returned
    /\ args.days = 29
    /\ Len(savings_daily_values) = 29
    /\ savings_daily_values[29] = args.initial_investment

\* C9: the savings series has exactly `days` elements.
C9_SavingsLength == Returned => Len(savings_daily_values) = args.days

C9_Witness ==
    /\ Returned
    /\ args.days = MaxSavingsDays
    /\ Len(savings_daily_values) = MaxSavingsDays

(***************************************************************************)
(* Properties of the summary (under Spec).                                 *)
(***************************************************************************)
\* C10: in the summary shown after "Calcular Rendimento", when days < 30
\* the savings metric reads "N/A" and carries no percentage, never a numeric
\* 0; a numeric savings yield and percentage are shown only when days >= 30.
C10_SavingsNotApplicableBelow30 ==
    screen.kind = "summary" =>
        /\ args.days < 30 =>
               /\ screen.rendimento_poupanca = "N/A"
               /\ screen.rendimento_poupanca_delta = None
        /\ args.days >= 30 =>
               /\ screen.rendimento_poupanca # "N/A"
               /\ screen.rendimento_poupanca_delta # None

\* C10 holds of streamlit_v2 and streamlit_cloud_v0, which test days >= 30
\* before they draw the metric
C10_LaterScriptsNotApplicable ==
    (screen.kind = "summary" /\ variant # "streamlit") =>
        /\ args.days < 30 =>
               /\ screen.rendimento_poupanca = "N/A"
               /\ screen.rendimento_poupanca_delta = None
        /\ args.days >= 30 =>
               /\ screen.rendimento_poupanca # "N/A"
               /\ screen.rendimento_poupanca_delta # None

\* The first script at 29 days: the savings metric reads a numeric zero
C10_Witness ==
    /\ variant = "streamlit"
    /\ screen.kind = "summary"
    /\ args.days = 29
    /\ screen.rendimento_poupanca = "R$ 0,00"
    /\ screen.rendimento_poupanca_delta = Some("0.00%")

(***************************************************************************)
(* Properties of the page (under Spec).                                    *)
(***************************************************************************)
\* The fields as the claim wants them: principal and days set, principal,
\* days and annual rate positive
FieldsValid ==
    /\ session_state.initial_investment # None
    /\ session_state.days # None
    /\ FGt(session_state.initial_investment[1], FZero)
    /\ session_state.days[1] >= 1
    /\ FGt(session_state.cdi_rate, FZero)

\* C11: whatever edits, CDI resets and clears came before, a press of
\* "Calcular Rendimento" computes the projection only when principal > 0,
\* days >= 1 and annual rate > 0 all hold, and then from exactly those
\* values; with a field unset or not positive it draws an error message and
\* computes no projection.  A press of "Limpar Simulacao" that empties the
\* fields leaves them such that the next press of "Calcular Rendimento" is
\* of the second kind.
C11_CalculateValidates ==
    [][/\ calculate_button =>
              IF FieldsValid
              THEN /\ screen'.kind = "summary"
                   /\ args'.initial_investment = session_state.initial_investment[1]
                   /\ args'.days = session_state.days[1]
                   /\ args'.annual_cdi_percent = session_state.cdi_rate
                   /\ Len(results_df') = args'.days
              ELSE /\ screen'.kind = "error"
                   /\ args' = None
                   /\ results_df' = <<>>
                   /\ no_bonus_df' = <<>>
                   /\ savings_daily_values' = <<>>
       /\ cleared' => (~FieldsValid)']_vars

\* streamlit_v2 with a rate of 0.01 %: "Calcular Rendimento" pressed on the
\* fields as "Limpar Simulacao" left them draws the error and no results
C11_Witness ==
    /\ variant = "streamlit_v2"
    /\ cleared
    /\ session_state.initial_investment = None
    /\ session_state.days = None
    /\ session_state.cdi_rate = FDec(1, 2)
    /\ screen.kind = "error"
    /\ results_df = <<>>
    /\ args = None

(***************************************************************************)
(* Properties of repeated calls (under SpecRepeat).                        *)
(***************************************************************************)
\* C12: calculate_99pay_returns keeps no state between calls: called again
\* with the same principal, days, annual rate and bonus, with or without the
\* bonus-0 baseline call in between, it returns the same series.
C12_RepeatedCallSameSeries ==
    [][pc' = "repeated" => results_df' = results_df]_vars

\* A repeat after a baseline call that returned a different series
C12_Witness ==
    /\ pc = "repeated"
    /\ args.bonus_percent = FFromInt(10)
    /\ Len(results_df) = args.days
    /\ Len(no_bonus_df) = args.days
    /\ results_df # no_bonus_df

(***************************************************************************)
(* Properties of calculate_daily_cdi (under SpecCdi).                      *)
(***************************************************************************)
\* 367 units in the last place of a float near 1: the root is within one
\* unit of the true root, which the 365th power multiplies by 365, and the
\* power and the sum 1 + annual / 100 are each within one unit more
RoundTripTolerance == FRound(FALSE, BNFromInt(367), 0 - 52, FALSE)

\* What (1 + rate) ** 365 may be
Compounded(rate) == PowOutcomes(FAdd(FFromInt(1), rate), FFromInt(365))

\* 1 + annual_rate_percent / 100
AnnualFactor == FAdd(FFromInt(1), FDiv(args.annual_cdi_percent, FFromInt(100)))

\* c is AnnualFactor up to floating rounding
RoundsTo(c) ==
    /\ FLe(FSub(c, AnnualFactor), FMul(AnnualFactor, RoundTripTolerance))
    /\ FLe(FSub(AnnualFactor, c), FMul(AnnualFactor, RoundTripTolerance))

\* C13: for a positive annual rate the daily rate compounds back to the
\* annual rate over 365 days: (1 + daily_rate) ** 365 differs from
\* 1 + annual_rate_percent / 100 by no more than floating rounding (367
\* units in the last place), whichever float the build's pow returns, and
\* the daily rate is positive and below annual / 365, as the 365th root is.
C13_DailyRateRoundTrip ==
    (pc = "returned" /\ FGt(args.annual_cdi_percent, FZero)) =>
        /\ \A c \in Compounded(daily_rate[1]) : RoundsTo(c)
        /\ FGt(daily_rate[1], FZero)
        /\ FLt(daily_rate[1],
               FDiv(FDiv(args.annual_cdi_percent, FFromInt(100)),
                    FFromInt(365)))

\* The default rate, 11.15 %: the round trip does not come back to the bit
C13_Witness ==
    /\ pc = "returned"
    /\ args.annual_cdi_percent = DEFAULT_CDI
    /\ FGt(daily_rate[1], FZero)
    /\ \A c \in Compounded(daily_rate[1]) : c # AnnualFactor /\ RoundsTo(c)

(***************************************************************************)
(* Properties of the daily yields (under SpecPay).                         *)
(***************************************************************************)
\* The tier yields the claim states for a day that starts on balance
YieldFaixa1(balance) ==
    FMul(FMul(FMin(balance, FFromInt(5000)), DailyCdi),
         FAdd(FDec(110, 2), FDiv(args.bonus_percent, FFromInt(100))))

YieldFaixa2(balance) ==
    FMul(FMul(FMax(FZero, FSub(balance, FFromInt(5000))), DailyCdi),
         FDec(80, 2))

\* C14: on each day both yields are computed from that day's start-of-day
\* balance and from the one daily rate computed before the loop:
\* tier1_yield = tier1_base * daily_rate * tier1_multiplier and tier2_yield
\* = tier2_base * daily_rate * 0.80; the day's own yield enters the bases
\* only from the next day on, whose yields are those of the closing balance
\* of the day before.
C14_YieldsFromStartOfDay ==
    Returned =>
        \A k \in Rows :
            /\ results_df[k].RendimentoFaixa1 =
                   YieldFaixa1(results_df[k].ValorInicial)
            /\ results_df[k].RendimentoFaixa2 =
                   YieldFaixa2(results_df[k].ValorInicial)
            /\ k > 1 =>
                   /\ results_df[k].RendimentoFaixa1 =
                          YieldFaixa1(results_df[k - 1].ValorFinal)
                   /\ results_df[k].RendimentoFaixa2 =
                          YieldFaixa2(results_df[k - 1].ValorFinal)

\* A first day under the ceiling: its tier-1 yield is not the yield of its
\* closing balance, the second day's is
C14_Witness ==
    /\ Returned
    /\ Len(results_df) >= 2
    /\ FLt(results_df[1].ValorFinal, FFromInt(5000))
    /\ results_df[1].RendimentoFaixa1 = YieldFaixa1(results_df[1].ValorInicial)
    /\ results_df[1].RendimentoFaixa1 # YieldFaixa1(results_df[1].ValorFinal)
    /\ results_df[2].RendimentoFaixa1 = YieldFaixa1(results_df[1].ValorFinal)

(***************************************************************************)
(* Properties of the two buttons beside the form (under Spec).             *)
(***************************************************************************)
\* What the claim says of a press of "Limpar Simulacao"
ClearedKeepingCdi ==
    /\ session_state'.initial_investment = None
    /\ session_state'.days = None
    /\ session_state'.bonus_percent = FZero
    /\ session_state'.cdi_rate = session_state.cdi_rate

\* What the claim says of a press of "Redefinir CDI"
CdiResetOnly ==
    /\ session_state'.cdi_rate = DEFAULT_CDI
    /\ session_state'.initial_investment = session_state.initial_investment
    /\ session_state'.days = session_state.days
    /\ session_state'.bonus_percent = session_state.bonus_percent

\* C15: "Limpar Simulacao" sets principal and days to unset and the bonus
\* to 0 and leaves the CDI rate as it was; "Redefinir CDI" sets the CDI rate
\* to the default 11.15 and leaves principal, days and bonus as they were.
C15_ClearLeavesCdi ==
    [][/\ clear_simulation_callback => ClearedKeepingCdi
       /\ reset_cdi_callback => CdiResetOnly]_vars

\* C15 holds of streamlit_v2 and of the one button of the first script
C15_CallbacksLeaveCdi ==
    [][variant # "streamlit_cloud_v0" =>
           /\ clear_simulation_callback => ClearedKeepingCdi
           /\ reset_cdi_callback => CdiResetOnly]_vars

(***************************************************************************)
(* Properties of a run across the tier-1 ceiling (under SpecPay).          *)
(***************************************************************************)
\* C16: in a run with a positive rate, once a day starts on 5000 or more
\* every later day does too, the tier-1 base of those days is 5000 and their
\* tier-1 yields are one and the same value; and the tier-2 yield is 0 on
\* exactly the days that start on 5000 or less.
C16_CeilingOnceReached ==
    (Returned /\ FGt(args.annual_cdi_percent, FZero)) =>
        /\ \A j, k \in Rows :
               (j < k /\ FGe(results_df[j].ValorInicial, FFromInt(5000))) =>
                   /\ FGe(results_df[k].ValorInicial, FFromInt(5000))
                   /\ FMin(results_df[k].ValorInicial, FFromInt(5000))
                          = FFromInt(5000)
                   /\ results_df[k].RendimentoFaixa1
                          = results_df[j].RendimentoFaixa1
        /\ \A k \in Rows :
               results_df[k].RendimentoFaixa2 = FZero
                   <=> FLe(results_df[k].ValorInicial, FFromInt(5000))

\* A run that starts under the ceiling and spends two days above it, on
\* different balances
C16_Witness ==
    /\ Returned
    /\ Len(results_df) >= 3
    /\ FLt(results_df[1].ValorInicial, FFromInt(5000))
    /\ results_df[1].RendimentoFaixa2 = FZero
    /\ FGt(results_df[2].ValorInicial, FFromInt(5000))
    /\ FGt(results_df[3].ValorInicial, results_df[2].ValorInicial)
    /\ results_df[3].RendimentoFaixa1 = results_df[2].RendimentoFaixa1
    /\ results_df[2].RendimentoFaixa2 # FZero

(***************************************************************************)
(* The bonus run against its baseline (under SpecBonus).                   *)
(***************************************************************************)
Compared == pc = "compared" /\ FGt(args.annual_cdi_percent, FZero)

\* C17 as stated: with a positive rate and a positive bonus, the bonus
\* run's end balance is strictly greater than the baseline's on every day.
C17_BonusStrictlyDominates ==
    Compared =>
        \A k \in Rows :
            FGt(results_df[k].ValorFinal, no_bonus_df[k].ValorFinal)

\* C17, what the code guarantees: the two series have the same days, the
\* bonus run's end balance is never below the baseline's, and it is
\* strictly greater on every day when the principal is at most 10000.
C17_BonusNeverBelowBaseline ==
    Compared =>
        /\ Len(no_bonus_df) = Len(results_df)
        /\ \A k \in Rows :
               /\ FGe(results_df[k].ValorFinal, no_bonus_df[k].ValorFinal)
               /\ FLe(args.initial_investment, FFromInt(10000)) =>
                      FGt(results_df[k].ValorFinal, no_bonus_df[k].ValorFinal)

\* A comparison over three days whose bonus run is ahead on each of them
C17_Witness ==
    /\ Compared
    /\ Len(results_df) >= 3
    /\ args.bonus_percent = FDec(1, 2)
    /\ \A k \in Rows :
           FGt(results_df[k].ValorFinal, no_bonus_df[k].ValorFinal)

====
